---------------------------- MODULE Spec2Model ----------------------------
(***************************************************************************)
(* A model of scripts/extractor_llm.py: the taxonomy loader, the two-tier  *)
(* TTP identifier, the malware identifier, the timeline builder and the    *)
(* analysis orchestrator.                                                  *)
(*                                                                         *)
(* A Python str is a sequence of characters, each character a one-letter   *)
(* string; the en dash U+2013 of the descriptor format is the atom EnDash. *)
(* A Python dict is a sequence of <<key, value>> pairs with distinct keys, *)
(* in insertion order.  None and pd.NaT are the atoms below.               *)
(***************************************************************************)
EXTENDS Integers, Sequences, FiniteSets, TLC

VARIABLES
    pc,                  \* "import" (module not yet executed), "ready", "crashed"
    MODEL,               \* the loaded classifier, or NoModel (line 41)
    ID2LABEL,            \* label index -> technique id, or <<>> when not loaded
    MITRE_JSON,          \* what load_mitre_data returned
    MITRE_TTPS,          \* dict technique id -> name
    MITRE_MALWARE_NAMES, \* set of lowercased malware names
    MITRE_MALWARE_MAP,   \* dict lowercased malware name -> list of descriptors
    last,                \* the call in progress / just returned, or Idle
    today,               \* the date of the clock at present: [year, month, day]
    parserinfo_year      \* dateutil's parserinfo._year: the year of the clock
                         \* when line 11 imported dateutil.parser (0 before)

vars == <<pc, MODEL, ID2LABEL, MITRE_JSON, MITRE_TTPS, MITRE_MALWARE_NAMES,
          MITRE_MALWARE_MAP, last, today, parserinfo_year>>

taxonomy == <<MITRE_TTPS, MITRE_MALWARE_NAMES, MITRE_MALWARE_MAP>>

-----------------------------------------------------------------------------
(* Characters and str methods *)

EnDash == "EN_DASH"
\* U+0131, the dotless i: a lower-case letter whose upper case is "I"
DotlessI == "DOTLESS_I"
None == <<"None">>
NaT == <<>>

Digits == <<"0", "1", "2", "3", "4", "5", "6", "7", "8", "9">>
Uppers == <<"A", "B", "C", "D", "E", "F", "G", "H", "I", "J", "K", "L", "M",
            "N", "O", "P", "Q", "R", "S", "T", "U", "V", "W", "X", "Y", "Z">>
Lowers == <<"a", "b", "c", "d", "e", "f", "g", "h", "i", "j", "k", "l", "m",
            "n", "o", "p", "q", "r", "s", "t", "u", "v", "w", "x", "y", "z">>

Range(f) == {f[i] : i \in DOMAIN f}

\* Body(v), with v evaluated once
Bind(v, Body(_)) == CHOOSE r \in {Body(x) : x \in {v}} : TRUE
DigitSet == Range(Digits)
UpperSet == Range(Uppers)
LowerSet == Range(Lowers)

IndexIn(tab, c) == CHOOSE i \in DOMAIN tab : tab[i] = c

IsDigit(c) == c \in DigitSet
IsUpper(c) == c \in UpperSet
\* [a-z]
IsAsciiLower(c) == c \in LowerSet
IsLower(c) == IsAsciiLower(c) \/ c = DotlessI
IsCased(c) == IsUpper(c) \/ IsLower(c)
IsWordChar(c) == IsDigit(c) \/ IsCased(c) \/ c = "_"
IsSpace(c) == c \in {" ", "\n", "\t"}

DigitVal(c) == IndexIn(Digits, c) - 1

\* Unicode code point of a character (the order Python compares str by).
Ord(c) ==
    IF IsDigit(c) THEN 47 + IndexIn(Digits, c)
    ELSE IF IsUpper(c) THEN 64 + IndexIn(Uppers, c)
    ELSE IF IsAsciiLower(c) THEN 96 + IndexIn(Lowers, c)
    ELSE CASE c = "\t" -> 9
           [] c = "\n" -> 10
           [] c = " " -> 32
           [] c = "," -> 44
           [] c = "-" -> 45
           [] c = "." -> 46
           [] c = "/" -> 47
           [] c = "_" -> 95
           [] c = DotlessI -> 305
           [] c = EnDash -> 8211

CharLower(c) == IF IsUpper(c) THEN Lowers[IndexIn(Uppers, c)] ELSE c
CharUpper(c) ==
    IF IsAsciiLower(c) THEN Uppers[IndexIn(Lowers, c)]
    ELSE IF c = DotlessI THEN "I"
    ELSE c

\* str.lower()
lower(s) == [i \in 1..Len(s) |-> CharLower(s[i])]

\* str.title(): a cased character is upper-cased when the character before
\* it is uncased (or there is none) and lower-cased otherwise.
title(s) ==
    [i \in 1..Len(s) |->
        IF ~IsCased(s[i]) THEN s[i]
        ELSE IF i > 1 /\ IsCased(s[i - 1]) THEN CharLower(s[i])
        ELSE CharUpper(s[i])]

\* sub occurs in s starting at index i (1-based).
OccursAt(s, sub, i) ==
    /\ i >= 1
    /\ i + Len(sub) - 1 <= Len(s)
    /\ \A k \in 1..Len(sub) : s[i + k - 1] = sub[k]

\* `sub in s`
Contains(s, sub) == \E i \in 1..(Len(s) + 1) : OccursAt(s, sub, i)

\* s.startswith(prefix)
startswith(s, prefix) == OccursAt(s, prefix, 1)

\* a < b for str: lexicographic by code point.
RECURSIVE StrLess(_, _)
StrLess(a, b) ==
    IF b = <<>> THEN FALSE
    ELSE IF a = <<>> THEN TRUE
    ELSE IF Ord(Head(a)) # Ord(Head(b)) THEN Ord(Head(a)) < Ord(Head(b))
    ELSE StrLess(Tail(a), Tail(b))

\* sep.join(parts)
RECURSIVE join(_, _)
join(sep, parts) ==
    IF parts = <<>> THEN <<>>
    ELSE IF Len(parts) = 1 THEN parts[1]
    ELSE parts[1] \o sep \o join(sep, Tail(parts))

\* str.strip()
RECURSIVE lstrip(_)
lstrip(s) == IF s # <<>> /\ IsSpace(Head(s)) THEN lstrip(Tail(s)) ELSE s
RECURSIVE rstrip(_)
rstrip(s) ==
    IF s # <<>> /\ IsSpace(s[Len(s)]) THEN rstrip(SubSeq(s, 1, Len(s) - 1)) ELSE s
strip(s) == rstrip(lstrip(s))

\* sorted(S) for a set of str
RECURSIVE sorted(_)
sorted(S) ==
    IF S = {} THEN <<>>
    ELSE LET m == CHOOSE x \in S : \A y \in S \ {x} : StrLess(x, y)
         IN <<m>> \o sorted(S \ {m})

\* re: \b at the gap before index i (1..Len(s)+1)
WordBoundary(s, i) ==
    LET before == i > 1 /\ IsWordChar(s[i - 1])
        after == i <= Len(s) /\ IsWordChar(s[i])
    IN before # after

-----------------------------------------------------------------------------
(* Date extraction: the four patterns of extract_dates, and re.findall *)

MonthAbbr ==
    << <<"J", "a", "n">>, <<"F", "e", "b">>, <<"M", "a", "r">>,
       <<"A", "p", "r">>, <<"M", "a", "y">>, <<"J", "u", "n">>,
       <<"J", "u", "l">>, <<"A", "u", "g">>, <<"S", "e", "p">>,
       <<"O", "c", "t">>, <<"N", "o", "v">>, <<"D", "e", "c">> >>

\* (?:Jan|Feb|...|Dec) matches at index i
MonthAt(s, i) == \E m \in DOMAIN MonthAbbr : OccursAt(s, MonthAbbr[m], i)

\* \d{n} matches at index i
DigitsAt(s, i, n) ==
    /\ i >= 1
    /\ i + n - 1 <= Len(s)
    /\ \A k \in i..(i + n - 1) : IsDigit(s[k])

\* the index after the longest run of characters of a class starting at i
LowerRunEnd(s, i) ==
    CHOOSE j \in i..(Len(s) + 1) :
        /\ \A k \in i..(j - 1) : IsAsciiLower(s[k])
        /\ (j = Len(s) + 1 \/ ~IsAsciiLower(s[j]))
SpaceRunEnd(s, i) ==
    CHOOSE j \in i..(Len(s) + 1) :
        /\ \A k \in i..(j - 1) : IsSpace(s[k])
        /\ (j = Len(s) + 1 \/ ~IsSpace(s[j]))

\* \d{1,2} followed by the literal c: the number of digits taken, 0 for none
OneOrTwoDigitsThen(s, i, c) ==
    IF DigitsAt(s, i, 2) /\ i + 2 <= Len(s) /\ s[i + 2] = c THEN 2
    ELSE IF DigitsAt(s, i, 1) /\ i + 1 <= Len(s) /\ s[i + 1] = c THEN 1
    ELSE 0

\* \d{1,2}\s+ : the number of digits taken, 0 for none
OneOrTwoDigitsThenSpace(s, i) ==
    IF DigitsAt(s, i, 2) /\ i + 2 <= Len(s) /\ IsSpace(s[i + 2]) THEN 2
    ELSE IF DigitsAt(s, i, 1) /\ i + 1 <= Len(s) /\ IsSpace(s[i + 1]) THEN 1
    ELSE 0

\* \d{2,4}\b, greedy: the number of digits taken, 0 for none
TwoToFourDigitsThenBoundary(s, i) ==
    IF DigitsAt(s, i, 4) /\ WordBoundary(s, i + 4) THEN 4
    ELSE IF DigitsAt(s, i, 3) /\ WordBoundary(s, i + 3) THEN 3
    ELSE IF DigitsAt(s, i, 2) /\ WordBoundary(s, i + 2) THEN 2
    ELSE 0

\* Each Match operator gives the index after the match of its pattern that
\* starts at index i, or 0 when the pattern does not match there.

\* \b(?:Jan|...|Dec)[a-z]*\s+\d{1,2},\s+\d{4}\b
MatchMonthDayYear(s, i) ==
    IF ~(WordBoundary(s, i) /\ MonthAt(s, i)) THEN 0
    ELSE LET a == LowerRunEnd(s, i + 3)
             b == SpaceRunEnd(s, a)
             k == OneOrTwoDigitsThen(s, b, ",")
             c == b + k + 1
             d == SpaceRunEnd(s, c)
         IN IF b > a /\ k > 0 /\ d > c /\ DigitsAt(s, d, 4) /\ WordBoundary(s, d + 4)
            THEN d + 4 ELSE 0

\* \b\d{4}-\d{2}-\d{2}\b
MatchIso(s, i) ==
    IF /\ WordBoundary(s, i)
       /\ DigitsAt(s, i, 4)
       /\ i + 9 <= Len(s)
       /\ s[i + 4] = "-"
       /\ DigitsAt(s, i + 5, 2)
       /\ s[i + 7] = "-"
       /\ DigitsAt(s, i + 8, 2)
       /\ WordBoundary(s, i + 10)
    THEN i + 10 ELSE 0

\* \b\d{1,2}/\d{1,2}/\d{2,4}\b
MatchSlash(s, i) ==
    IF ~WordBoundary(s, i) THEN 0
    ELSE LET k1 == OneOrTwoDigitsThen(s, i, "/")
             b == i + k1 + 1
             k2 == OneOrTwoDigitsThen(s, b, "/")
             c == b + k2 + 1
             k3 == TwoToFourDigitsThenBoundary(s, c)
         IN IF k1 > 0 /\ k2 > 0 /\ k3 > 0 THEN c + k3 ELSE 0

\* \b\d{1,2}\s+(?:Jan|...|Dec)[a-z]*\s+\d{4}\b
MatchDayMonthYear(s, i) ==
    IF ~WordBoundary(s, i) THEN 0
    ELSE LET k == OneOrTwoDigitsThenSpace(s, i)
             a == SpaceRunEnd(s, i + k)
             b == LowerRunEnd(s, a + 3)
             c == SpaceRunEnd(s, b)
         IN IF k > 0 /\ MonthAt(s, a) /\ c > b /\ DigitsAt(s, c, 4) /\ WordBoundary(s, c + 4)
            THEN c + 4 ELSE 0

\* date_patterns, in the order of the list
MatchPattern(p, s, i) ==
    CASE p = 1 -> MatchMonthDayYear(s, i)
      [] p = 2 -> MatchIso(s, i)
      [] p = 3 -> MatchSlash(s, i)
      [] p = 4 -> MatchDayMonthYear(s, i)

\* re.findall(pattern p, s), scanning from index i: the leftmost match at or
\* after i, then on from its end.
RECURSIVE findall(_, _, _)
findall(p, s, i) ==
    IF \A j \in i..Len(s) : MatchPattern(p, s, j) = 0 THEN <<>>
    ELSE Bind(CHOOSE j \in i..Len(s) :
                  /\ MatchPattern(p, s, j) # 0
                  /\ \A k \in i..(j - 1) : MatchPattern(p, s, k) = 0,
              LAMBDA j :
                Bind(MatchPattern(p, s, j),
                     LAMBDA e : <<SubSeq(s, j, e - 1)>> \o findall(p, s, e)))

\* The matches as a list, pattern after pattern, neither sorted nor
\* deduplicated.
AllMatchesInOrder(text) ==
    findall(1, text, 1) \o findall(2, text, 1) \o findall(3, text, 1) \o findall(4, text, 1)

extract_dates(text) ==
    LET matches == UNION {Range(findall(p, text, 1)) : p \in 1..4}
    IN sorted(matches)

-----------------------------------------------------------------------------
(* Sentences and context windows *)

IsSentenceEnd(s, i) ==
    /\ s[i] \in {".", "!", "?"}
    /\ (i = Len(s) \/ IsSpace(s[i + 1]))

\* nltk's sent_tokenize on plain prose: a sentence ends at a full stop,
\* exclamation or question mark that is followed by white space or by the end
\* of the text; the white space between sentences belongs to neither.
RECURSIVE sent_tokenize(_)
sent_tokenize(text) ==
    LET s == strip(text)
    IN IF s = <<>> THEN <<>>
       ELSE IF \E i \in 1..Len(s) : IsSentenceEnd(s, i)
            THEN LET e == CHOOSE i \in 1..Len(s) :
                              /\ IsSentenceEnd(s, i)
                              /\ \A j \in 1..(i - 1) : ~IsSentenceEnd(s, j)
                 IN <<SubSeq(s, 1, e)>> \o sent_tokenize(SubSeq(s, e + 1, Len(s)))
            ELSE <<s>>

Max(a, b) == IF a >= b THEN a ELSE b
Min(a, b) == IF a <= b THEN a ELSE b

\* A window that stops one sentence short.
ContextWindowShort(sents, i, window) ==
    LET start == IF i >= window THEN i - window ELSE 0
        end == Min(Len(sents), i + window)
    IN join(<<" ">>, SubSeq(sents, start + 1, end))

\* " ".join(sents[start:end]) for sentence i (0-based)
ContextWindow(sents, i, window) ==
    LET start == Max(0, i - window)
        end == Min(Len(sents), i + window + 1)
    IN join(<<" ">>, SubSeq(sents, start + 1, end))

\* The pairs get_context appends for one date, from sentence i (0-based) on.
RECURSIVE ContextsOfDate(_, _, _, _)
ContextsOfDate(sents, date, window, i) ==
    IF i >= Len(sents) THEN <<>>
    ELSE (IF Contains(sents[i + 1], date)
          THEN << <<date, ContextWindow(sents, i, window)>> >>
          ELSE <<>>) \o ContextsOfDate(sents, date, window, i + 1)

RECURSIVE ContextsOfDates(_, _, _)
ContextsOfDates(sents, dates, window) ==
    IF dates = <<>> THEN <<>>
    ELSE ContextsOfDate(sents, Head(dates), window, 0)
             \o ContextsOfDates(sents, Tail(dates), window)

get_context(text, dates, window) ==
    ContextsOfDates(sent_tokenize(text), dates, window)

-----------------------------------------------------------------------------
(* Date normalisation: dateutil's parse(date_str, fuzzy=True) on the strings  *)
(* the four patterns match: digit runs, one alphabetic word, white space,    *)
(* ',', '-' and '/'.  The parser reads two clocks: the date of the call      *)
(* (today) for the fields a string leaves out, and the year of the import    *)
(* of dateutil (parserinfo_year) for the century of a two-digit year.        *)

\* the value None of a field the parser did not find
Absent == -1

\* int(str) of a digit string
RECURSIVE IntOf(_)
IntOf(str) ==
    IF str = <<>> THEN 0
    ELSE 10 * IntOf(SubSeq(str, 1, Len(str) - 1)) + DigitVal(str[Len(str)])

\* the end of the run of characters of s from i on that satisfy Is
RunEnd(s, i, Is(_)) ==
    CHOOSE j \in i..Len(s) :
        /\ \A k \in i..j : Is(s[k])
        /\ (j = Len(s) \/ ~Is(s[j + 1]))

\* dateutil's lexer: a run of digits, a run of letters, or one other
\* character, a white-space character read as a space
RECURSIVE DateTokens(_, _)
DateTokens(s, i) ==
    IF i > Len(s) THEN <<>>
    ELSE IF IsDigit(s[i])
    THEN <<[kind |-> "num", str |-> SubSeq(s, i, RunEnd(s, i, IsDigit))]>>
            \o DateTokens(s, RunEnd(s, i, IsDigit) + 1)
    ELSE IF IsCased(s[i])
    THEN <<[kind |-> "word", str |-> SubSeq(s, i, RunEnd(s, i, IsCased))]>>
            \o DateTokens(s, RunEnd(s, i, IsCased) + 1)
    ELSE <<[kind |-> "sep", str |-> <<IF IsSpace(s[i]) THEN " " ELSE s[i]>>]>>
            \o DateTokens(s, i + 1)

\* the full month names dateutil knows beside the abbreviations
MonthFull ==
    << <<"J", "a", "n", "u", "a", "r", "y">>,
       <<"F", "e", "b", "r", "u", "a", "r", "y">>,
       <<"M", "a", "r", "c", "h">>,
       <<"A", "p", "r", "i", "l">>,
       <<"M", "a", "y">>,
       <<"J", "u", "n", "e">>,
       <<"J", "u", "l", "y">>,
       <<"A", "u", "g", "u", "s", "t">>,
       <<"S", "e", "p", "t", "e", "m", "b", "e", "r">>,
       <<"O", "c", "t", "o", "b", "e", "r">>,
       <<"N", "o", "v", "e", "m", "b", "e", "r">>,
       <<"D", "e", "c", "e", "m", "b", "e", "r">> >>

\* info.month(w): the month a word names (1..12), 0 for a word that names
\* none ('sept' is dateutil's second abbreviation of September)
MonthOfWord(w) ==
    LET lw == lower(w)
    IN IF \E m \in 1..12 : lw = lower(MonthAbbr[m]) \/ lw = lower(MonthFull[m])
       THEN CHOOSE m \in 1..12 : lw = lower(MonthAbbr[m]) \/ lw = lower(MonthFull[m])
       ELSE IF lw = <<"s", "e", "p", "t">> THEN 9
       ELSE 0

\* The _ymd list: the values in order, whether a century was written, the
\* positions (1-based, 0 for None) of the value known to be the year and of
\* the value known to be the month, and whether an exception was raised.
EmptyYmd ==
    [vals |-> <<>>, century_specified |-> FALSE, ystridx |-> 0, mstridx |-> 0,
     err |-> FALSE]

RaisedYmd == [EmptyYmd EXCEPT !.err = TRUE]

\* _ymd.append(val, label): digits is the length of val when it is given as
\* a string, 0 when it is given as a number.  A string of more than two
\* digits, or a number above 100, is the year.
YmdAppend(ymd, val, digits, label) ==
    LET isYear == digits > 2 \/ (digits = 0 /\ val > 100)
        lab == IF isYear THEN "Y" ELSE label
    IN IF \/ ymd.err
          \/ (isYear /\ label = "M")
          \/ (lab = "M" /\ ymd.mstridx # 0)
          \/ (lab = "Y" /\ ymd.ystridx # 0)
       THEN RaisedYmd
       ELSE [vals |-> Append(ymd.vals, val),
             century_specified |-> ymd.century_specified \/ isYear,
             ystridx |-> IF lab = "Y" THEN Len(ymd.vals) + 1 ELSE ymd.ystridx,
             mstridx |-> IF lab = "M" THEN Len(ymd.vals) + 1 ELSE ymd.mstridx,
             err |-> FALSE]

\* a member of a '-' or '/' separated date: a digit string, or a month name
YmdAppendMember(ymd, token) ==
    IF token.kind = "num" THEN YmdAppend(ymd, IntOf(token.str), Len(token.str), "")
    ELSE IF token.kind = "word" /\ MonthOfWord(token.str) # 0
    THEN YmdAppend(ymd, MonthOfWord(token.str), 0, "M")
    ELSE RaisedYmd

IsDateSep(token) == token.kind = "sep" /\ token.str \in {<<"-">>, <<"/">>}

\* The loop of the parser over the tokens from the i-th on.  A number
\* followed by '-' or '/' opens a separated date of up to three members,
\* given as strings; a number followed by a jump character or by nothing is
\* given by value; a month name is the month; any other word is skipped
\* (fuzzy).
RECURSIVE ParseDateTokens(_, _, _)
ParseDateTokens(l, i, ymd) ==
    IF i > Len(l) \/ ymd.err THEN ymd
    ELSE IF l[i].kind = "num"
    THEN IF i + 1 <= Len(l) /\ IsDateSep(l[i + 1])
         THEN LET first == YmdAppend(ymd, IntOf(l[i].str), Len(l[i].str), "")
              IN IF i + 2 <= Len(l) /\ l[i + 2].kind # "sep"
                 THEN LET second == YmdAppendMember(first, l[i + 2])
                      IN IF i + 3 <= Len(l) /\ l[i + 3] = l[i + 1]
                         THEN IF i + 4 <= Len(l)
                              THEN ParseDateTokens(l, i + 5,
                                                   YmdAppendMember(second, l[i + 4]))
                              ELSE RaisedYmd
                         ELSE ParseDateTokens(l, i + 3, second)
                 ELSE ParseDateTokens(l, i + 2, first)
         ELSE IF i = Len(l) \/ l[i + 1].kind = "sep"
         THEN ParseDateTokens(l, i + 1, YmdAppend(ymd, IntOf(l[i].str), 0, ""))
         ELSE RaisedYmd
    ELSE IF l[i].kind = "word" /\ MonthOfWord(l[i].str) # 0
    THEN ParseDateTokens(l, i + 1, YmdAppend(ymd, MonthOfWord(l[i].str), 0, "M"))
    ELSE ParseDateTokens(l, i + 1, ymd)

\* _ymd.resolve_ymd(yearfirst=False, dayfirst=False): <<year, month, day>>,
\* Absent for a field that is not given
resolve_ymd(ymd) ==
    LET v == ymd.vals
        n == Len(v)
        y == ymd.ystridx
        m == ymd.mstridx
        known == (IF y # 0 THEN 1 ELSE 0) + (IF m # 0 THEN 1 ELSE 0)
    IN IF (n = known /\ known > 0) \/ (n = 3 /\ known = 2)
       THEN <<IF y # 0 THEN v[y] ELSE Absent,
              IF m # 0 THEN v[m] ELSE Absent,
              IF n = 3 THEN v[CHOOSE k \in 1..3 : k # y /\ k # m] ELSE Absent>>
       ELSE IF n = 1
       THEN IF v[1] > 31 THEN <<v[1], Absent, Absent>> ELSE <<Absent, Absent, v[1]>>
       ELSE IF n = 2 /\ m # 0
       THEN LET other == v[3 - m]
            IN IF other > 31 THEN <<other, v[m], Absent>> ELSE <<Absent, v[m], other>>
       ELSE IF n = 2
       THEN IF v[1] > 31 THEN <<v[1], v[2], Absent>>
            ELSE IF v[2] > 31 THEN <<v[2], v[1], Absent>>
            ELSE <<Absent, v[1], v[2]>>
       ELSE IF n = 3 /\ m = 1
       THEN IF v[2] > 31 THEN <<v[2], v[1], v[3]>> ELSE <<v[3], v[1], v[2]>>
       ELSE IF n = 3 /\ m = 2
       THEN IF v[1] > 31 THEN <<v[1], v[2], v[3]>> ELSE <<v[3], v[2], v[1]>>
       ELSE IF n = 3 /\ m = 3
       THEN IF v[2] > 31 THEN <<v[2], v[3], v[1]>> ELSE <<v[1], v[3], v[2]>>
       ELSE IF n = 3
       THEN IF v[1] > 31 \/ y = 1 THEN <<v[1], v[2], v[3]>>
            ELSE IF v[1] > 12 THEN <<v[3], v[2], v[1]>>
            ELSE <<v[3], v[1], v[2]>>
       ELSE <<Absent, Absent, Absent>>

\* parserinfo.convertyear: a year below 100 written without its century is
\* taken to the century of parserinfo._year, within fifty years of it
ConvertYear(year, century_specified) ==
    IF year < 100 /\ ~century_specified
    THEN LET guess == year + (parserinfo_year \div 100) * 100
         IN IF guess >= parserinfo_year + 50 THEN guess - 100
            ELSE IF guess < parserinfo_year - 50 THEN guess + 100
            ELSE guess
    ELSE year

IsLeap(y) == (y % 4 = 0 /\ y % 100 # 0) \/ y % 400 = 0

DaysInMonth(y, m) ==
    IF m = 2 THEN (IF IsLeap(y) THEN 29 ELSE 28)
    ELSE IF m \in {4, 6, 9, 11} THEN 30 ELSE 31

\* datetime(y, m, d), or NaT where datetime raises ValueError
MakeDate(y, m, d) ==
    IF /\ y >= 1 /\ y <= 9999
       /\ m >= 1 /\ m <= 12
       /\ d >= 1 /\ d <= DaysInMonth(y, m)
    THEN <<y, m, d>> ELSE NaT

\* The date of the fields found, the others taken from now, the date
\* datetime.now() gives the parse; a day taken from it is brought back to the
\* last day of the month.
BuildDate(year, month, day, now) ==
    LET y == IF year = Absent THEN now.year ELSE year
        m == IF month = Absent THEN now.month ELSE month
    IN IF m < 1 \/ m > 12 THEN NaT
       ELSE MakeDate(y, m, IF day = Absent THEN Min(now.day, DaysInMonth(y, m))
                              ELSE day)

\* safe_parse(date_str) when the clock the parse reads gives now
safe_parse_at(date_str, now) ==
    LET ymd == ParseDateTokens(DateTokens(date_str, 1), 1, EmptyYmd)
        found == resolve_ymd(ymd)
    IN IF ymd.err \/ Len(ymd.vals) > 3 \/ found = <<Absent, Absent, Absent>> THEN NaT
       ELSE BuildDate(IF found[1] = Absent THEN Absent
                      ELSE ConvertYear(found[1], ymd.century_specified),
                      found[2], found[3], now)

safe_parse(date_str) == safe_parse_at(date_str, today)

\* the date the process starts at; the date a long-lived process reaches in
\* the whole program (a leap day, in another half-century than the import);
\* and the dates of the clock, which add the next day and the next year
RuntimeClocks == {[year |-> 2026, month |-> 10, day |-> 29]}
LongRunClocks == {[year |-> 2080, month |-> 2, day |-> 29]}
Clocks ==
    RuntimeClocks \cup LongRunClocks
        \cup {[year |-> 2026, month |-> 10, day |-> 30],
              [year |-> 2027, month |-> 1, day |-> 31]}

\* date a is before date b
Before(a, b) ==
    \/ a.year < b.year
    \/ a.year = b.year /\ a.month < b.month
    \/ a.year = b.year /\ a.month = b.month /\ a.day < b.day

\* The dates the clock gives n successive parses of one call: each parse
\* reads the clock, which may have moved on since the parse before.
ClockReads(n) ==
    {nows \in [1..n -> {today} \cup {c \in LongRunClocks : Before(today, c)}] :
        \A i \in 1..(n - 1) : nows[i] = nows[i + 1] \/ Before(nows[i], nows[i + 1])}

\* the date of the clock after those parses
ClockAfter(nows) == IF nows = <<>> THEN today ELSE nows[Len(nows)]

-----------------------------------------------------------------------------
(* dict *)

DictKeys(d) == {d[i][1] : i \in DOMAIN d}

\* d.get(k, default)
DictGet(d, k, default) ==
    IF k \in DictKeys(d) THEN d[CHOOSE i \in DOMAIN d : d[i][1] = k][2] ELSE default

\* d[k] = v: a new key goes last, a known key keeps its place
DictSet(d, k, v) ==
    IF k \in DictKeys(d)
    THEN [i \in DOMAIN d |-> IF d[i][1] = k THEN <<k, v>> ELSE d[i]]
    ELSE Append(d, <<k, v>>)

-----------------------------------------------------------------------------
(* TTP extraction *)

DefaultThreshold == 30  \* threshold=0.3, in hundredths

Unknown == <<"U", "n", "k", "n", "o", "w", "n">>

\* The classifier is a stub: loaded or not, and when loaded it either fails
\* at inference or gives each label the same probability (in hundredths)
\* for every text.
NoModel == [loaded |-> FALSE, raises |-> FALSE, probs |-> <<>>]

\* the items of a dict whose value, lower-cased, occurs in lowerText
RECURSIVE MatchItems(_, _)
MatchItems(items, lowerText) ==
    IF items = <<>> THEN <<>>
    ELSE (IF Contains(lowerText, lower(Head(items)[2]))
          THEN <<[id |-> Head(items)[1], description |-> Head(items)[2]]>>
          ELSE <<>>) \o MatchItems(Tail(items), lowerText)

extract_ttps_by_match(text) == MatchItems(MITRE_TTPS, lower(text))

\* A selection that also takes a probability equal to the threshold.
AtOrAboveThreshold(probs, threshold) ==
    SelectSeq([i \in 1..Len(probs) |-> i], LAMBDA i : probs[i] >= threshold)

\* (probs > threshold).nonzero(): the label indices, ascending
AboveThreshold(probs, threshold) ==
    SelectSeq([i \in 1..Len(probs) |-> i], LAMBDA i : probs[i] > threshold)

\* A call's outcome is [exc |-> whether it raised, val |-> what it returned].
extract_ttps_by_model(text, threshold) ==
    IF ~(MODEL.loaded /\ ID2LABEL # <<>>) THEN [exc |-> FALSE, val |-> <<>>]
    ELSE IF MODEL.raises THEN [exc |-> TRUE, val |-> <<>>]
    ELSE LET idx == AboveThreshold(MODEL.probs, threshold)
         IN [exc |-> FALSE,
             val |-> [k \in 1..Len(idx) |->
                        [id |-> ID2LABEL[idx[k]],
                         description |-> DictGet(MITRE_TTPS, ID2LABEL[idx[k]], Unknown)]]]

\* A fallback that consults the classifier whatever the match found.
FallbackModelAlways(text, found) ==
    Bind(extract_ttps_by_model(text, DefaultThreshold),
         LAMBDA r :
           [exc |-> r.exc, val |-> IF found # <<>> THEN found ELSE r.val,
            calls |-> <<[fn |-> "extract_ttps_by_match", text |-> text,
                         exc |-> FALSE, ret |-> found],
                        [fn |-> "extract_ttps_by_model", text |-> text,
                         exc |-> r.exc, ret |-> r.val]>>])

\* What extract_ttps_with_fallback does once extract_ttps_by_match has
\* returned found.  calls: the detection strategies invoked, in order, each
\* with what it returned.
FallbackAfterMatch(text, found) ==
    IF found # <<>>
    THEN [exc |-> FALSE, val |-> found,
          calls |-> <<[fn |-> "extract_ttps_by_match", text |-> text,
                       exc |-> FALSE, ret |-> found]>>]
    ELSE Bind(extract_ttps_by_model(text, DefaultThreshold),
              LAMBDA r :
                [exc |-> r.exc, val |-> r.val,
                 calls |-> <<[fn |-> "extract_ttps_by_match", text |-> text,
                              exc |-> FALSE, ret |-> found],
                             [fn |-> "extract_ttps_by_model", text |-> text,
                              exc |-> r.exc, ret |-> r.val]>>])

extract_ttps_with_fallback(text) ==
    Bind(extract_ttps_by_match(text), LAMBDA found : FallbackAfterMatch(text, found))

-----------------------------------------------------------------------------
(* Malware extraction *)

\* re.search(rf'\b{re.escape(m)}\b', s)
SearchWord(m, s) ==
    \E i \in 1..(Len(s) + 1) :
        /\ OccursAt(s, m, i)
        /\ WordBoundary(s, i)
        /\ WordBoundary(s, i + Len(m))

MatchedMalware(text) ==
    {m \in MITRE_MALWARE_NAMES : SearchWord(m, lower(text))}

MalwareEntry(m) == [name |-> title(m), ttps |-> DictGet(MITRE_MALWARE_MAP, m, <<>>)]

Orderings(S) ==
    {p \in [1..Cardinality(S) -> S] : \A i, j \in DOMAIN p : p[i] = p[j] => i = j}

\* The lists extract_malware may return: it walks a set, whose order Python
\* does not fix.
extract_malware(text) ==
    {[i \in DOMAIN p |-> MalwareEntry(p[i])] : p \in Orderings(MatchedMalware(text))}

\* The map had the lookup been .setdefault(m, []): a matched name without
\* an entry gets one.
RECURSIVE SetDefaults(_, _)
SetDefaults(d, names) ==
    IF names = <<>> THEN d
    ELSE SetDefaults(IF Head(names) \in DictKeys(d) THEN d
                     ELSE Append(d, <<Head(names), <<>>>>),
                     Tail(names))
MalwareMapAfterSetdefault(text) ==
    SetDefaults(MITRE_MALWARE_MAP, sorted(MatchedMalware(text)))

\* MITRE_MALWARE_MAP after extract_malware(text): .get(m, []) inserts nothing
MalwareMapAfterExtract(text) == MITRE_MALWARE_MAP

-----------------------------------------------------------------------------
(* Timeline *)

DefaultWindow == 2  \* window=2

TimelineColumns == <<"timestamp", "TTPs", "context">>

\* pd.DataFrame()
EmptyFrame == [columns |-> <<>>, rows |-> <<>>]

\* One turn of the loop of build_timeline: ttps is what
\* extract_ttps_with_fallback gave for the context of the pair.
TimelineStep(acc, pair, ttps) ==
    IF ttps.exc
    THEN [exc |-> TRUE, val |-> <<>>, calls |-> acc.calls \o ttps.calls]
    ELSE [exc |-> FALSE,
          val |-> IF ttps.val # <<>>
                  THEN Append(acc.val,
                              [timestamp |-> pair[1],
                               TTPs |-> [k \in DOMAIN ttps.val |-> ttps.val[k].id],
                               context |-> pair[2]])
                  ELSE acc.val,
          calls |-> acc.calls \o ttps.calls]

\* the loop of build_timeline over the (date, context) pairs from the i-th
\* on; an exception ends it
RECURSIVE TimelineLoop(_, _, _)
TimelineLoop(contexts, i, acc) ==
    IF i > Len(contexts) \/ acc.exc THEN acc
    ELSE Bind(extract_ttps_with_fallback(contexts[i][2]),
              LAMBDA ttps :
                Bind(TimelineStep(acc, contexts[i], ttps),
                     LAMBDA next : TimelineLoop(contexts, i + 1, next)))

\* df['timestamp'].apply(safe_parse): one parse for each row, the i-th
\* reading the date nows[i]
ApplySafeParse(rows, nows) ==
    [i \in DOMAIN rows |->
        [rows[i] EXCEPT !.timestamp = safe_parse_at(rows[i].timestamp, nows[i])]]

\* A filter that drops nothing.
KeepAllRows(rows) == rows

\* df.dropna(subset=["timestamp", "TTPs"]): a list is never NA
dropna(rows) == SelectSeq(rows, LAMBDA r : r.timestamp # NaT)

\* What build_timeline may return for the outcome of its loop: one result
\* for each run of the clock over the parses of line 214.  nows records the
\* dates the parses read.
TimelineFrame(timeline) ==
    IF timeline.exc
    THEN {[exc |-> TRUE, val |-> EmptyFrame, calls |-> timeline.calls, nows |-> <<>>]}
    ELSE IF timeline.val = <<>>
    THEN {[exc |-> FALSE, val |-> EmptyFrame, calls |-> timeline.calls, nows |-> <<>>]}
    ELSE {[exc |-> FALSE,
           val |-> [columns |-> TimelineColumns,
                    rows |-> dropna(ApplySafeParse(timeline.val, nows))],
           calls |-> timeline.calls,
           nows |-> nows] : nows \in ClockReads(Len(timeline.val))}

build_timeline(text) ==
    Bind(get_context(text, extract_dates(text), DefaultWindow),
         LAMBDA contexts :
           Bind(TimelineLoop(contexts, 1, [exc |-> FALSE, val |-> <<>>, calls |-> <<>>]),
                LAMBDA timeline : TimelineFrame(timeline)))

-----------------------------------------------------------------------------
(* Orchestration *)

NoTextError ==
    <<"N", "o", " ", "t", "e", "x", "t", " ", "e", "x", "t", "r", "a", "c", "t",
      "e", "d", " ", "f", "r", "o", "m", " ", "t", "h", "e", " ", "P", "D", "F", ".">>

\* A stream is [pdf |-> whether fitz can open it, pages |-> the page texts].
extract_text_from_stream(pdf_stream) ==
    IF pdf_stream.pdf THEN join(<<"\n">>, pdf_stream.pages) ELSE <<>>

\* The outcomes of the three stages of analyze_report_data, run in the order
\* of the dict display: an exception of a stage is the outcome of the call,
\* and malware is any of the lists extract_malware may return.  malware_map
\* is MITRE_MALWARE_MAP as the call leaves it, nows the dates the parses of
\* the timeline read.
AnalyzeStages(text, ttps, timeline) ==
    IF ttps.exc
    THEN {[exc |-> TRUE, val |-> <<>>, calls |-> ttps.calls,
           malware_map |-> MITRE_MALWARE_MAP, nows |-> <<>>]}
    ELSE IF timeline.exc
    THEN {[exc |-> TRUE, val |-> <<>>, calls |-> ttps.calls \o timeline.calls,
           malware_map |-> MalwareMapAfterExtract(text), nows |-> <<>>]}
    ELSE {[exc |-> FALSE,
           val |-> [report_ttps |-> ttps.val,
                    malware |-> malware,
                    timeline_df |-> timeline.val,
                    error |-> None],
           calls |-> ttps.calls \o timeline.calls,
           malware_map |-> MalwareMapAfterExtract(text),
           nows |-> timeline.nows]
          : malware \in extract_malware(text)}

AnalyzeText(text) ==
    IF strip(text) = <<>>
    THEN {[exc |-> FALSE, val |-> [error |-> NoTextError], calls |-> <<>>,
           malware_map |-> MITRE_MALWARE_MAP, nows |-> <<>>]}
    ELSE Bind(extract_ttps_with_fallback(text),
              LAMBDA ttps :
                UNION {AnalyzeStages(text, ttps, timeline) :
                         timeline \in build_timeline(text)})

analyze_report_data(file_stream) ==
    Bind(extract_text_from_stream(file_stream), LAMBDA text : AnalyzeText(text))

-----------------------------------------------------------------------------
(* Taxonomy loading *)

\* JSON: an object is a function from its keys; None is JsonNone.
JsonNone == [none |-> TRUE]

Has(obj, key) == key \in DOMAIN obj

\* The fetch either fails with a requests.RequestException or yields the
\* parsed body: fetched is [ok |-> FALSE] or [ok |-> TRUE, body |-> json].
load_mitre_data(fetched) == IF fetched.ok THEN fetched.body ELSE JsonNone

\* `not json_data or 'objects' not in json_data`
NoObjects(json_data) ==
    Has(json_data, "none") \/ DOMAIN json_data = {} \/ ~Has(json_data, "objects")

\* obj.get('external_references') is truthy
HasReferences(obj) ==
    Has(obj, "external_references") /\ obj.external_references # <<>>

\* the comprehension of lines 67-71 raises KeyError on this object
TechniquesRaisesOn(obj) ==
    \/ ~Has(obj, "type")
    \/ /\ obj.type = "attack-pattern"
       /\ HasReferences(obj)
       /\ \/ ~Has(obj, "id")
          \/ ~Has(obj.external_references[1], "external_id")
          \/ ~Has(obj, "name")

RECURSIVE Techniques(_)
Techniques(objects) ==
    IF objects = <<>> THEN <<>>
    ELSE LET obj == objects[Len(objects)]
             before == Techniques(SubSeq(objects, 1, Len(objects) - 1))
         IN IF obj.type = "attack-pattern" /\ HasReferences(obj)
            THEN DictSet(before, obj.id,
                         <<obj.external_references[1].external_id, obj.name>>)
            ELSE before

\* the comprehension of lines 73-77 raises KeyError on this object
MalwareIdsRaisesOn(obj) ==
    obj.type = "malware" /\ (~Has(obj, "id") \/ ~Has(obj, "name"))

RECURSIVE MalwareIds(_)
MalwareIds(objects) ==
    IF objects = <<>> THEN <<>>
    ELSE LET obj == objects[Len(objects)]
             before == MalwareIds(SubSeq(objects, 1, Len(objects) - 1))
         IN IF obj.type = "malware" THEN DictSet(before, obj.id, obj.name)
            ELSE before

\* next((r.get('external_id') for r in refs if r.get('source_name') ==
\* 'mitre-attack'), None)
MitreRef(refs) ==
    LET IsMitre(r) == Has(r, "source_name") /\ r.source_name = "mitre-attack"
    IN IF \E i \in DOMAIN refs : IsMitre(refs[i])
       THEN LET r == refs[CHOOSE i \in DOMAIN refs :
                              IsMitre(refs[i]) /\ \A j \in 1..(i - 1) : ~IsMitre(refs[j])]
            IN IF Has(r, "external_id") THEN r.external_id ELSE None
       ELSE None

\* the loop of lines 79-93 raises KeyError on this object
LoopRaisesOn(obj) ==
    /\ obj.type = "attack-pattern"
    /\ \/ ~Has(obj, "external_references")
       \/ /\ MitreRef(obj.external_references) \notin {None, <<>>}
          /\ ~Has(obj, "name")

MalwarePrefix == <<"m", "a", "l", "w", "a", "r", "e", "-", "-">>

\* f"{ttp_id} – {ttp_name}"
Descriptor(ttp_id, ttp_name) == ttp_id \o <<" ", EnDash, " ">> \o ttp_name

\* obj.get(key, '')
GetOrEmpty(obj, key) == IF Has(obj, key) THEN obj[key] ELSE <<>>

\* One turn of the loop of lines 79-93 on obj, from the three structures acc.
LoopStep(acc, obj, techniques, malware_ids) ==
    IF obj.type = "attack-pattern"
    THEN LET ref == MitreRef(obj.external_references)
         IN IF ref \notin {None, <<>>}
            THEN [acc EXCEPT !.ttps = DictSet(acc.ttps, ref, obj.name)]
            ELSE acc
    ELSE IF obj.type = "malware"
    THEN [acc EXCEPT !.malware_set = acc.malware_set \cup {lower(obj.name)}]
    ELSE IF /\ obj.type = "relationship"
            /\ Has(obj, "relationship_type")
            /\ obj.relationship_type = "uses"
    THEN LET source == GetOrEmpty(obj, "source_ref")
             target == GetOrEmpty(obj, "target_ref")
         IN IF startswith(source, MalwarePrefix) /\ target \in DictKeys(techniques)
            THEN LET malware == DictGet(malware_ids, source, None)
                     ttp == DictGet(techniques, target, None)
                 IN IF malware \notin {None, <<>>}
                    THEN [acc EXCEPT !.malware_to_ttps =
                            DictSet(acc.malware_to_ttps, lower(malware),
                                    Append(DictGet(acc.malware_to_ttps, lower(malware), <<>>),
                                           Descriptor(ttp[1], ttp[2])))]
                    ELSE acc
            ELSE acc
    ELSE acc

RECURSIVE Loop(_, _, _)
Loop(objects, techniques, malware_ids) ==
    IF objects = <<>> THEN [ttps |-> <<>>, malware_set |-> {}, malware_to_ttps |-> <<>>]
    ELSE LoopStep(Loop(SubSeq(objects, 1, Len(objects) - 1), techniques, malware_ids),
                  objects[Len(objects)], techniques, malware_ids)

\* parse_mitre's outcome: exc when it raises, else the three structures
parse_mitre(json_data) ==
    IF NoObjects(json_data)
    THEN [exc |-> FALSE, ttps |-> <<>>, malware_set |-> {}, malware_to_ttps |-> <<>>]
    ELSE LET objects == json_data.objects
         IN IF \/ \E i \in DOMAIN objects : TechniquesRaisesOn(objects[i])
               \/ \E i \in DOMAIN objects : MalwareIdsRaisesOn(objects[i])
               \/ \E i \in DOMAIN objects : LoopRaisesOn(objects[i])
            THEN [exc |-> TRUE, ttps |-> <<>>, malware_set |-> {}, malware_to_ttps |-> <<>>]
            ELSE LET r == Loop(objects, Techniques(objects), MalwareIds(objects))
                 IN [exc |-> FALSE, ttps |-> r.ttps, malware_set |-> r.malware_set,
                     malware_to_ttps |-> r.malware_to_ttps]

-----------------------------------------------------------------------------
(* Inputs: datasets *)

MaxObjects == 3

ap1 == <<"a", "t", "t", "a", "c", "k", "-", "p", "a", "t", "t", "e", "r", "n", "-", "-", "1">>
ap2 == <<"a", "t", "t", "a", "c", "k", "-", "p", "a", "t", "t", "e", "r", "n", "-", "-", "2">>
ap9 == <<"a", "t", "t", "a", "c", "k", "-", "p", "a", "t", "t", "e", "r", "n", "-", "-", "9">>
mw1 == <<"m", "a", "l", "w", "a", "r", "e", "-", "-", "1">>
mw2 == <<"m", "a", "l", "w", "a", "r", "e", "-", "-", "2">>
T1566 == <<"T", "1", "5", "6", "6">>
T1014 == <<"T", "1", "0", "1", "4">>
T1027 == <<"T", "1", "0", "2", "7">>
CAPEC98 == <<"C", "A", "P", "E", "C", "-", "9", "8">>
Phishing == <<"P", "h", "i", "s", "h", "i", "n", "g">>
Rootkit == <<"R", "o", "o", "t", "k", "i", "t">>
Emotet == <<"E", "m", "o", "t", "e", "t">>

ObjPhishing ==
    [type |-> "attack-pattern", id |-> ap1, name |-> Phishing,
     external_references |-> <<[source_name |-> "mitre-attack", external_id |-> T1566]>>]
\* its first reference is not the mitre-attack one
ObjRootkit ==
    [type |-> "attack-pattern", id |-> ap2, name |-> Rootkit,
     external_references |-> <<[source_name |-> "capec", external_id |-> CAPEC98],
                               [source_name |-> "mitre-attack", external_id |-> T1014]>>]
ObjNoReferences == [type |-> "attack-pattern", id |-> ap9, name |-> Rootkit]
ObjEmptyReferences ==
    [type |-> "attack-pattern", id |-> ap9, name |-> Rootkit, external_references |-> <<>>]
ObjNoExternalId ==
    [type |-> "attack-pattern", id |-> ap9, name |-> Rootkit,
     external_references |-> <<[source_name |-> "mitre-attack"]>>]
ObjEmotet == [type |-> "malware", id |-> mw1, name |-> Emotet]
ObjAgentBtz == [type |-> "malware", id |-> mw2, name |-> <<"A", "g", "e", "n", "t", ".", "b", "t", "z">>]
ObjIrmak == [type |-> "malware", id |-> <<"m", "a", "l", "w", "a", "r", "e", "-", "-", "3">>, name |-> <<DotlessI, "r", "m", "a", "k">>]
\* a malware whose name ends with a character that is not a word character
ObjSova == [type |-> "malware", id |-> <<"m", "a", "l", "w", "a", "r", "e", "-", "-", "4">>,
            name |-> <<"S", ".", "O", ".", "V", ".", "A", ".">>]
ObjNoName == [type |-> "malware", id |-> mw2]
ObjNoType == [id |-> mw2, name |-> Emotet]
UsesRel(source, target) ==
    [type |-> "relationship", relationship_type |-> "uses",
     source_ref |-> source, target_ref |-> target]

WellFormedObjects ==
    {ObjPhishing, ObjRootkit, ObjEmptyReferences, ObjEmotet, ObjAgentBtz,
     UsesRel(mw1, ap1), UsesRel(mw1, ap2), UsesRel(mw2, ap9), UsesRel(<<"i", "n", "t", "r", "u", "s", "i", "o", "n", "-", "s", "e", "t", "-", "-", "1">>, ap1)}

MalformedObjects == {ObjNoReferences, ObjNoExternalId, ObjNoName, ObjNoType}

SeqsUpTo(S, n) == UNION {[1..k -> S] : k \in 0..n}

\* what the fetch of line 51-53 may come to
Fetches ==
    {[ok |-> FALSE], [ok |-> TRUE, body |-> [version |-> "1"]]}
        \cup {[ok |-> TRUE, body |-> [objects |-> objs]] :
                objs \in SeqsUpTo(WellFormedObjects \cup MalformedObjects, MaxObjects)}

\* the dataset the operations are explored with
FullDataset ==
    <<ObjPhishing, ObjRootkit, ObjEmotet, ObjAgentBtz, ObjIrmak, ObjSova, UsesRel(mw1, ap1)>>

RuntimeFetches == {[ok |-> FALSE], [ok |-> TRUE, body |-> [objects |-> FullDataset]]}

\* the classifier of lines 31-41: not loaded, failing at inference, or a
\* stub giving the two labels these probabilities (hundredths)
Labels == <<T1566, T1027>>
Classifiers ==
    {NoModel, [loaded |-> TRUE, raises |-> TRUE, probs |-> <<>>]}
        \cup {[loaded |-> TRUE, raises |-> FALSE, probs |-> p] :
                p \in {<<30, 30>>, <<31, 30>>, <<30, 31>>, <<99, 31>>}}

-----------------------------------------------------------------------------
(* The program *)

Idle == [op |-> "idle"]

Init ==
    /\ pc = "import"
    /\ MODEL = NoModel
    /\ ID2LABEL = <<>>
    /\ MITRE_JSON = JsonNone
    /\ MITRE_TTPS = <<>>
    /\ MITRE_MALWARE_NAMES = {}
    /\ MITRE_MALWARE_MAP = <<>>
    /\ last = Idle
    /\ today \in RuntimeClocks
    /\ parserinfo_year = 0

\* Executing the module: line 11 imports dateutil.parser, whose default
\* parser keeps the year of the clock; lines 31-41 load the classifier, line
\* 97 fetches the dataset and line 98 parses it; an exception of parse_mitre
\* ends the import.
ImportModule(classifier, fetched) ==
    /\ pc = "import"
    /\ MODEL' = classifier
    /\ ID2LABEL' = IF classifier.loaded THEN Labels ELSE <<>>
    /\ MITRE_JSON' = load_mitre_data(fetched)
    /\ \E parsed \in {parse_mitre(load_mitre_data(fetched))} :
          /\ pc' = IF parsed.exc THEN "crashed" ELSE "ready"
          /\ MITRE_TTPS' = parsed.ttps
          /\ MITRE_MALWARE_NAMES' = parsed.malware_set
          /\ MITRE_MALWARE_MAP' = parsed.malware_to_ttps
    /\ last' = Idle
    /\ parserinfo_year' = today.year
    /\ UNCHANGED today

-----------------------------------------------------------------------------
(* Inputs: texts *)

MaxWords == 2
MaxSents == 4
MaxPageSents == 2
MaxContextSents == 5
MaxWindow == 2

Space == <<" ">>

\* the texts of up to n of the given words or sentences, joined by a space
TextsOf(parts, n) == {join(Space, ps) : ps \in SeqsUpTo(parts, n)}

TtpWords ==
    {<<"P", "h", "i", "s", "h", "i", "n", "g">>,
     <<"s", "p", "e", "a", "r", "P", "H", "I", "S", "H", "I", "N", "G">>,
     <<"r", "o", "o", "t", "k", "i", "t">>,
     <<"q", "u", "i", "e", "t">>}

MalwareWords ==
    {<<"E", "m", "o", "t", "e", "t">>,
     <<"E", "m", "o", "t", "e", "t", "x">>,
     <<"E", "M", "O", "T", "E", "T", "-", "x">>,
     <<"a", "g", "e", "n", "t", ".", "b", "t", "z">>,
     <<"A", "g", "e", "n", "t", "x", "b", "t", "z">>,
     <<DotlessI, "r", "m", "a", "k">>,
     <<"S", ".", "O", ".", "V", ".", "A", ".">>}

DateWords ==
    {<<"2", "0", "2", "3", "-", "0", "5", "-", "0", "1">>,
     <<"0", "5", "/", "0", "1", "/", "2", "0", "2", "3">>,
     <<"1", "/", "1", "/", "2", "4">>,
     <<"M", "a", "y", " ", "1", ",", " ", "2", "0", "2", "3">>,
     <<"1", " ", "M", "a", "y", " ", "2", "0", "2", "3">>,
     <<"x", "2", "0", "2", "3", "-", "0", "5", "-", "0", "1">>,
     <<"1", "/", "1", "/", "2", "4", "5">>}

\* The date of the third sentence is 29 February of the year of the date
\* its parse reads: the word is skipped, and 0029 is read as the day.
TimelineSentences ==
    {<<"E", "m", "o", "t", "e", "t", " ", "p", "h", "i", "s", "h", "i", "n", "g", " ", "1", "/", "1", "/", "2", "4", " ", "s", "e", "e", "n", ".">>,
     <<"Q", "u", "i", "e", "t", " ", "5", "/", "1", "/", "2", "3", " ", "h", "e", "r", "e", ".">>,
     <<"R", "o", "o", "t", "k", "i", "t", " ", "2", " ", "M", "a", "y", "d", "a", "y", " ", "0", "0", "2", "9", " ", "s", "e", "e", "n", ".">>}

ContextSentences ==
    {<<"S", "e", "e", "n", " ", "1", "/", "1", "/", "2", "4", " ", "t", "o", "d", "a", "y", ".">>,
     <<"Q", "u", "i", "e", "t", ".">>,
     <<"T", "h", "e", "n", " ", "5", "/", "1", "/", "2", "3", " ", "a", "g", "a", "i", "n", ".">>}

ContextDates ==
    {<<"1", "/", "1", "/", "2", "4">>,
     <<"5", "/", "1", "/", "2", "3">>,
     <<"9", "/", "9", "/", "9", "9">>}

TtpTexts == TextsOf(TtpWords, MaxWords)
MalwareTexts == TextsOf(MalwareWords, MaxWords)
DateTexts == TextsOf(DateWords, MaxWords)
TimelineTexts == TextsOf(TimelineSentences, MaxSents)
ContextTexts == TextsOf(ContextSentences, MaxContextSents)

\* date strings the patterns match: the usual forms, years written 00xx,
\* numbers out of range, and words that only begin with a month name
DateStrings ==
    {<<"M", "a", "y", " ", "1", ",", " ", "2", "0", "2", "3">>,
     <<"1", " ", "M", "a", "y", " ", "2", "0", "2", "3">>,
     <<"2", "0", "2", "3", "-", "0", "5", "-", "0", "1">>,
     <<"0", "5", "/", "0", "1", "/", "2", "0", "2", "3">>,
     <<"1", "/", "1", "/", "2", "4">>,
     <<"5", "/", "1", "/", "2", "3">>,
     <<"1", "3", "/", "1", "/", "7", "6">>,
     <<"2", "0", "2", "3", "-", "1", "3", "-", "0", "1">>,
     <<"S", "e", "p", "t", " ", "3", "1", ",", " ", "2", "0", "2", "3">>,
     <<"S", "e", "p", "t", "e", "m", "b", "e", "r", " ", "1", "2", ",", " ", " ", "0", "0", "0", "1">>,
     <<"2", "9", " ", "O", "c", "t", "o", "b", "e", "r", " ", "0", "0", "0", "0">>,
     <<"D", "e", "c", "e", "m", "b", "e", "r", " ", " ", "3", "2", ",", " ", " ", "0", "0", "0", "1">>,
     <<"3", "2", "/", "1", "2", "/", "0", "0", "1">>,
     <<"5", "0", "/", "1", "2", "/", "0", "0", "0", "1">>,
     <<"1", " ", " ", "J", "a", "n", "\n", "0", "0", "0", "1">>,
     <<"M", "a", "y", "d", "a", "y", " ", "1", ",", " ", "2", "0", "2", "3">>,
     <<"3", "1", " ", "M", "a", "y", "d", "a", "y", " ", "2", "0", "2", "3">>,
     <<"M", "a", "y", "d", "a", "y", " ", "2", ",", " ", "0", "0", "3", "0">>,
     <<"0", "0", "0", "0", "-", "0", "1", "-", "0", "1">>,
     <<"F", "e", "b", " ", "2", "9", ",", " ", "2", "0", "2", "3">>,
     <<"2", " ", "M", "a", "y", "d", "a", "y", " ", "0", "0", "2", "9">>,
     <<"9", "9", "/", "1", "2", "/", "0", "0", "1">>,
     <<"3", "2", "/", "1", "1", "/", "0", "0", "1">>,
     <<"1", "2", "/", "3", "1", "/", "9", "9">>,
     <<"3", "1", "/", "1", "2", "/", "5", "0">>,
     <<"2", "/", "3", "0", "/", "2", "0", "2", "4">>,
     <<"2", "/", "2", "9", "/", "2", "0", "2", "4">>,
     <<"1", "9", "9", "9", "-", "0", "2", "-", "2", "9">>,
     <<"J", "a", "n", " ", "5", ",", " ", "1", "9", "9", "9">>,
     <<"5", " ", "J", "a", "n", " ", "0", "0", "7", "6">>,
     <<"0", "/", "1", "/", "2", "0", "2", "3">>,
     <<"1", "3", "/", "1", "3", "/", "2", "0", "2", "3">>,
     <<"M", "a", "r", "c", "h", "i", "n", "g", " ", "3", ",", " ", "2", "0", "2", "1">>,
     <<"J", "u", "n", "e", " ", "3", "1", ",", " ", "2", "0", "2", "0">>,
     <<"3", "0", " ", "F", "e", "b", " ", "2", "0", "2", "3">>,
     <<"D", "e", "c", " ", "2", "5", ",", " ", "9", "9", "9", "9">>,
     <<"2", "0", "2", "3", "-", "0", "0", "-", "1", "0">>}

\* the date lists build_timeline hands to get_context are those of
\* extract_dates: sorted, without repetition
ContextDateLists ==
    {sorted(S) : S \in {D \in SUBSET ContextDates : Cardinality(D) # 1}}

\* an unreadable stream, blank documents, and one-page documents of up to
\* MaxPageSents sentences
Streams ==
    {[pdf |-> FALSE, pages |-> <<>>],
     [pdf |-> TRUE, pages |-> <<Space>>],
     [pdf |-> TRUE, pages |-> << <<>>, <<>> >>]}
        \cup {[pdf |-> TRUE, pages |-> <<t>>] : t \in TextsOf(TimelineSentences, MaxPageSents)}

-----------------------------------------------------------------------------
(* Operations.  A call leaves its arguments and outcome in `last`; Return is *)
(* the caller taking the result (app.py reads it, and writes nothing back).  *)

Callable == pc = "ready" /\ last.op = "idle"

CallExtractTtps(text) ==
    /\ Callable
    /\ \E r \in {extract_ttps_with_fallback(text)} :
           last' = [op |-> "extract_ttps_with_fallback", text |-> text,
                    exc |-> r.exc, ret |-> r.val, calls |-> r.calls]
    /\ UNCHANGED <<today, parserinfo_year, pc, MODEL, ID2LABEL, MITRE_JSON, MITRE_TTPS, MITRE_MALWARE_NAMES,
                   MITRE_MALWARE_MAP>>

CallExtractMalware(text) ==
    /\ Callable
    /\ \E r \in extract_malware(text) :
           last' = [op |-> "extract_malware", text |-> text, exc |-> FALSE, ret |-> r,
                    calls |-> <<>>]
    /\ MITRE_MALWARE_MAP' = MalwareMapAfterExtract(text)
    /\ UNCHANGED <<today, parserinfo_year, pc, MODEL, ID2LABEL, MITRE_JSON, MITRE_TTPS, MITRE_MALWARE_NAMES>>

CallBuildTimeline(text) ==
    /\ Callable
    /\ \E r \in build_timeline(text) :
           /\ last' = [op |-> "build_timeline", text |-> text,
                       exc |-> r.exc, ret |-> r.val, calls |-> r.calls,
                       nows |-> r.nows]
           /\ today' = ClockAfter(r.nows)
    /\ UNCHANGED <<parserinfo_year, pc, MODEL, ID2LABEL, MITRE_JSON, MITRE_TTPS, MITRE_MALWARE_NAMES,
                   MITRE_MALWARE_MAP>>

CallAnalyze(stream) ==
    /\ Callable
    /\ \E r \in analyze_report_data(stream) :
           /\ last' = [op |-> "analyze_report_data", stream |-> stream,
                       text |-> extract_text_from_stream(stream),
                       exc |-> r.exc, ret |-> r.val, calls |-> r.calls,
                       nows |-> r.nows]
           /\ MITRE_MALWARE_MAP' = r.malware_map
           /\ today' = ClockAfter(r.nows)
    /\ UNCHANGED <<parserinfo_year, pc, MODEL, ID2LABEL, MITRE_JSON, MITRE_TTPS, MITRE_MALWARE_NAMES>>

CallExtractDates(text) ==
    /\ Callable
    /\ last' = [op |-> "extract_dates", text |-> text, exc |-> FALSE,
                ret |-> extract_dates(text), calls |-> <<>>]
    /\ UNCHANGED <<today, parserinfo_year, pc, MODEL, ID2LABEL, MITRE_JSON, MITRE_TTPS, MITRE_MALWARE_NAMES,
                   MITRE_MALWARE_MAP>>

CallGetContext(text, dates, window) ==
    /\ Callable
    /\ last' = [op |-> "get_context", text |-> text, dates |-> dates, window |-> window,
                exc |-> FALSE, ret |-> get_context(text, dates, window), calls |-> <<>>]
    /\ UNCHANGED <<today, parserinfo_year, pc, MODEL, ID2LABEL, MITRE_JSON, MITRE_TTPS, MITRE_MALWARE_NAMES,
                   MITRE_MALWARE_MAP>>

CallSafeParse(date_str) ==
    /\ Callable
    /\ last' = [op |-> "safe_parse", text |-> date_str, exc |-> FALSE,
                ret |-> safe_parse(date_str), calls |-> <<>>]
    /\ UNCHANGED <<today, parserinfo_year, pc, MODEL, ID2LABEL, MITRE_JSON, MITRE_TTPS, MITRE_MALWARE_NAMES,
                   MITRE_MALWARE_MAP>>

\* Time passes between two calls: the clock reaches a later date.  (Within
\* a call of build_timeline it moves between the parses, see ClockReads.)
ClockAdvances(now) ==
    /\ Callable
    /\ Before(today, now)
    /\ today' = now
    /\ UNCHANGED <<parserinfo_year, pc, MODEL, ID2LABEL, MITRE_JSON, MITRE_TTPS,
                   MITRE_MALWARE_NAMES, MITRE_MALWARE_MAP, last>>

Return ==
    /\ pc = "ready"
    /\ last.op # "idle"
    /\ last' = Idle
    /\ UNCHANGED <<today, parserinfo_year, pc, MODEL, ID2LABEL, MITRE_JSON, MITRE_TTPS, MITRE_MALWARE_NAMES,
                   MITRE_MALWARE_MAP>>

\* The process: import, then the TTP identifier, the malware identifier, the
\* timeline builder and analyze, in any order.
Next ==
    \/ \E c \in Classifiers, f \in RuntimeFetches : ImportModule(c, f)
    \/ \E t \in TtpTexts : CallExtractTtps(t)
    \/ \E t \in MalwareTexts : CallExtractMalware(t)
    \/ \E t \in TimelineTexts : CallBuildTimeline(t)
    \/ \E s \in Streams : CallAnalyze(s)
    \/ \E now \in LongRunClocks : ClockAdvances(now)
    \/ Return

Spec == Init /\ [][Next]_vars

\* The import alone, over every dataset of up to MaxObjects objects.
NextLoad == \E c \in {NoModel}, f \in Fetches : ImportModule(c, f)

SpecLoad == Init /\ [][NextLoad]_vars

\* The date functions alone, in a process whose import found no dataset and
\* no classifier.
InitDates ==
    /\ pc = "ready"
    /\ MODEL = NoModel
    /\ ID2LABEL = <<>>
    /\ MITRE_JSON = JsonNone
    /\ MITRE_TTPS = <<>>
    /\ MITRE_MALWARE_NAMES = {}
    /\ MITRE_MALWARE_MAP = <<>>
    /\ last = Idle
    /\ today \in RuntimeClocks
    /\ parserinfo_year = today.year

NextDates ==
    \/ \E t \in DateTexts : CallExtractDates(t)
    \/ \E t \in ContextTexts, d \in ContextDateLists, w \in 0..MaxWindow :
           CallGetContext(t, d, w)
    \/ Return

SpecDates == InitDates /\ [][NextDates]_vars

\* safe_parse alone, in a process that imported dateutil in any year of the
\* clock and is called at any later date.
InitParse ==
    /\ pc = "ready"
    /\ MODEL = NoModel
    /\ ID2LABEL = <<>>
    /\ MITRE_JSON = JsonNone
    /\ MITRE_TTPS = <<>>
    /\ MITRE_MALWARE_NAMES = {}
    /\ MITRE_MALWARE_MAP = <<>>
    /\ last = Idle
    /\ today \in Clocks
    /\ parserinfo_year \in {c.year : c \in {c \in Clocks : c = today \/ Before(c, today)}}

NextParse ==
    \/ \E d \in DateStrings : CallSafeParse(d)
    \/ \E now \in Clocks : ClockAdvances(now)
    \/ Return

SpecParse == InitParse /\ [][NextParse]_vars


-----------------------------------------------------------------------------
\* Properties of the technique extraction

\* The taxonomy techniques whose lower-cased name occurs in the lower-cased
\* text.
MentionedTechniques(text) ==
    {i \in DOMAIN MITRE_TTPS : Contains(lower(text), lower(MITRE_TTPS[i][2]))}

\* C1: extract_ttps_with_fallback tries the name match first and consults
\* the classifier only when the match is empty. When the text mentions a
\* known technique name (in any case) the result is exactly what the match
\* returned, it holds one entry for every mentioned technique, and the
\* classifier is not consulted; in every record of calls, a classifier call
\* comes directly after a match on the same text that returned nothing.
C1_MatchFirstModelOnlyAfterEmpty ==
    /\ (last.op = "extract_ttps_with_fallback"
            /\ MentionedTechniques(last.text) # {}) =>
         /\ ~last.exc
         /\ Len(last.calls) = 1
         /\ last.calls[1].fn = "extract_ttps_by_match"
         /\ last.calls[1].text = last.text
         /\ last.ret = last.calls[1].ret
         /\ Len(last.ret) = Cardinality(MentionedTechniques(last.text))
         /\ \A i \in MentionedTechniques(last.text) :
               \E k \in DOMAIN last.ret :
                  last.ret[k] = [id |-> MITRE_TTPS[i][1],
                                 description |-> MITRE_TTPS[i][2]]
    /\ last.op # "idle" =>
         \A k \in DOMAIN last.calls :
            last.calls[k].fn = "extract_ttps_by_model" =>
               /\ k > 1
               /\ last.calls[k - 1].fn = "extract_ttps_by_match"
               /\ last.calls[k - 1].text = last.calls[k].text
               /\ last.calls[k - 1].ret = <<>>

\* A text naming a technique in another case, with a working classifier
\* that would have returned labels, answered by the match alone.
C1_Witness ==
    /\ last.op = "extract_ttps_with_fallback"
    /\ MODEL.loaded /\ ~MODEL.raises
    /\ AboveThreshold(MODEL.probs, DefaultThreshold) # <<>>
    /\ MentionedTechniques(last.text) # {}
    /\ \E i \in MentionedTechniques(last.text) :
          ~Contains(last.text, MITRE_TTPS[i][2])
    /\ Len(last.calls) = 1
    /\ last.ret # <<>>

\* C2: when the text mentions no known technique name, the ids returned
\* are exactly the labels whose probability is strictly greater than the
\* default threshold, each id once; with no classifier loaded the result is
\* empty.
C2_ModelReturnsExactlyAboveThreshold ==
    (last.op = "extract_ttps_with_fallback"
        /\ MentionedTechniques(last.text) = {} /\ ~last.exc) =>
      IF MODEL.loaded
      THEN /\ {last.ret[k].id : k \in DOMAIN last.ret}
                = {ID2LABEL[i] : i \in {j \in DOMAIN MODEL.probs :
                                          MODEL.probs[j] > DefaultThreshold}}
           /\ \A j, k \in DOMAIN last.ret :
                 last.ret[j].id = last.ret[k].id => j = k
      ELSE last.ret = <<>>

\* A classifier with one label exactly at the threshold and one above it:
\* only the label above is returned.
C2_Witness ==
    /\ last.op = "extract_ttps_with_fallback"
    /\ MentionedTechniques(last.text) = {}
    /\ MODEL.loaded /\ ~last.exc
    /\ \E i \in DOMAIN MODEL.probs : MODEL.probs[i] = DefaultThreshold
    /\ Len(last.ret) = 1
    /\ Len(last.calls) = 2

-----------------------------------------------------------------------------
\* Properties of analyze_report_data

\* C3: for a stream that yields no text (blank, or not parsable as a PDF)
\* the result carries a non-null error together with report_ttps, malware
\* and timeline, all present and empty, and no extraction stage has run.
C3_BlankTextResultHasEmptyCollections ==
    (last.op = "analyze_report_data" /\ strip(last.text) = <<>>) =>
       /\ ~last.exc
       /\ last.calls = <<>>
       /\ Has(last.ret, "error") /\ last.ret.error # None
       /\ Has(last.ret, "report_ttps") /\ last.ret.report_ttps = <<>>
       /\ Has(last.ret, "malware") /\ last.ret.malware = <<>>
       /\ Has(last.ret, "timeline_df") /\ last.ret.timeline_df.rows = <<>>

\* C6: on non-blank text a failure inside one extraction stage does not
\* leave analyze_report_data as a fault: the call returns a result with the
\* keys of the three stages and a null error.
C6_StageFailureDoesNotPropagate ==
    (last.op = "analyze_report_data" /\ strip(last.text) # <<>>) =>
       /\ ~last.exc
       /\ Has(last.ret, "report_ttps")
       /\ Has(last.ret, "malware")
       /\ Has(last.ret, "timeline_df")
       /\ Has(last.ret, "error") /\ last.ret.error = None

-----------------------------------------------------------------------------
\* Properties of build_timeline

\* The techniques extract_ttps_with_fallback returns for a context, when it
\* returns.
ContextTtps(context) == extract_ttps_with_fallback(context).val

\* The (date, context) pairs of get_context whose context yields at least
\* one technique, in order: those build_timeline makes a row of and parses.
PairsWithTtps(text) ==
    SelectSeq(get_context(text, extract_dates(text), DefaultWindow),
              LAMBDA p : ContextTtps(p[2]) # <<>>)

\* C4: the events build_timeline returns are, in order, the (date, context)
\* pairs of get_context whose context yields at least one technique and
\* whose date parses at the date the clock gives its parse; every event has
\* a non-null timestamp and a non-empty technique list; a pair whose context
\* yields no technique, or whose date fails to parse, is not among them; and
\* when no context yields a technique there is no event.
C4_TimelineEventsParsedAndNonEmpty ==
    (last.op = "build_timeline" /\ ~last.exc) =>
      \A pairs \in {PairsWithTtps(last.text)} :
        /\ Len(last.nows) = Len(pairs)
        /\ \A parsed \in {[j \in DOMAIN pairs |->
                               safe_parse_at(pairs[j][1], last.nows[j])]} :
             \A kept \in {SelectSeq([j \in DOMAIN pairs |-> j],
                                    LAMBDA j : parsed[j] # NaT)} :
               \A rows \in {last.ret.rows} :
                 /\ \A k \in DOMAIN rows :
                       rows[k].timestamp # NaT /\ rows[k].TTPs # <<>>
                 /\ Len(rows) = Len(kept)
                 /\ \A k \in DOMAIN rows :
                       /\ rows[k].timestamp = parsed[kept[k]]
                       /\ rows[k].context = pairs[kept[k]][2]
                       /\ \A ttps \in {ContextTtps(pairs[kept[k]][2])} :
                             rows[k].TTPs = [j \in DOMAIN ttps |-> ttps[j].id]
                 /\ pairs = <<>> => rows = <<>>

\* A text with a pair dropped for lack of techniques though its date parses,
\* a pair dropped because its date did not parse on the day of its parse,
\* and pairs kept, parsed after the clock had moved on within the call.
C4_Witness ==
    /\ last.op = "build_timeline" /\ ~last.exc
    /\ LET all == get_context(last.text, extract_dates(last.text), DefaultWindow)
           pairs == PairsWithTtps(last.text)
       IN /\ \E k \in DOMAIN all :
                /\ ContextTtps(all[k][2]) = <<>>
                /\ \A now \in Clocks : safe_parse_at(all[k][1], now) # NaT
          /\ \E j \in DOMAIN pairs : safe_parse_at(pairs[j][1], last.nows[j]) = NaT
          /\ \E i, j \in DOMAIN last.nows : last.nows[i] # last.nows[j]
          /\ last.ret.rows # <<>>
          /\ Len(last.ret.rows) < Len(pairs)

-----------------------------------------------------------------------------
\* Properties of extract_malware

\* m occurs in s at i with no word character directly before or after it.
WholeWordAt(s, m, i) ==
    /\ OccursAt(s, m, i)
    /\ (i = 1 \/ ~IsWordChar(s[i - 1]))
    /\ (i + Len(m) > Len(s) \/ ~IsWordChar(s[i + Len(m)]))

\* The known names that occur in the lower-cased text as a whole word.
WholeWordNames(text) ==
    {m \in MITRE_MALWARE_NAMES :
        \E i \in 1..Len(text) : WholeWordAt(lower(text), m, i)}

\* C7: extract_malware returns exactly the known names that occur in the
\* text, whatever its case, as a whole word; each of them once, under its
\* title-cased name, with the taxonomy's descriptors for it or an empty
\* list when the taxonomy has none. A name that occurs only inside a longer
\* word is not returned.
C7_MalwareWholeWordsOnce ==
    last.op = "extract_malware" =>
      /\ Len(last.ret) = Cardinality(WholeWordNames(last.text))
      /\ \A m \in WholeWordNames(last.text) :
            /\ Cardinality({k \in DOMAIN last.ret : last.ret[k].name = title(m)}) = 1
            /\ \A k \in DOMAIN last.ret :
                  last.ret[k].name = title(m) =>
                     last.ret[k].ttps = IF m \in DictKeys(MITRE_MALWARE_MAP)
                                        THEN DictGet(MITRE_MALWARE_MAP, m, <<>>)
                                        ELSE <<>>
      /\ \A m \in MITRE_MALWARE_NAMES \ WholeWordNames(last.text) :
            \A k \in DOMAIN last.ret : last.ret[k].name # title(m)

\* The known names that begin and end with a word character.
WordEdgedNames ==
    {m \in MITRE_MALWARE_NAMES : m # <<>> /\ IsWordChar(m[1]) /\ IsWordChar(m[Len(m)])}

\* What does hold of extract_malware: of the names that begin and end with a
\* word character, it returns exactly those that occur as a whole word, each
\* once and with the taxonomy's descriptors or an empty list.
WordEdgedNamesWholeWordsOnce ==
    last.op = "extract_malware" =>
      /\ \A m \in WordEdgedNames \cap WholeWordNames(last.text) :
            /\ Cardinality({k \in DOMAIN last.ret : last.ret[k].name = title(m)}) = 1
            /\ \A k \in DOMAIN last.ret :
                  last.ret[k].name = title(m) =>
                     last.ret[k].ttps = IF m \in DictKeys(MITRE_MALWARE_MAP)
                                        THEN DictGet(MITRE_MALWARE_MAP, m, <<>>)
                                        ELSE <<>>
      /\ \A m \in WordEdgedNames \ WholeWordNames(last.text) :
            \A k \in DOMAIN last.ret : last.ret[k].name # title(m)
      /\ \A k, l \in DOMAIN last.ret : last.ret[k].name = last.ret[l].name => k = l

\* C11: every name extract_malware returns, title-cased for display, is,
\* when lower-cased again, a member of the malware-name set it was matched
\* from.
C11_MalwareNamesLowerBackIntoSet ==
    last.op = "extract_malware" =>
       \A k \in DOMAIN last.ret : lower(last.ret[k].name) \in MITRE_MALWARE_NAMES

-----------------------------------------------------------------------------
\* Properties of the taxonomy

\* A dataset the loader should survive: nothing fetched, no 'objects', or an
\* object without a type or a name, a technique without external references,
\* or a first reference without an external id.
MalformedDataset(json_data) ==
    \/ NoObjects(json_data)
    \/ \E k \in DOMAIN json_data.objects :
          LET obj == json_data.objects[k]
          IN \/ ~Has(obj, "type")
             \/ ~Has(obj, "name")
             \/ /\ obj.type = "attack-pattern"
                /\ \/ ~HasReferences(obj)
                   \/ ~Has(obj.external_references[1], "external_id")

\* C5: loading the taxonomy never raises, and for a failed fetch or a
\* malformed dataset it leaves the technique map, the malware-name set and
\* the malware-to-techniques map empty.
C5_TaxonomyLoadFailsSoft ==
    pc # "import" =>
       /\ pc # "crashed"
       /\ MalformedDataset(MITRE_JSON) =>
             /\ MITRE_TTPS = <<>>
             /\ MITRE_MALWARE_NAMES = {}
             /\ MITRE_MALWARE_MAP = <<>>

\* C10: once the import has finished, no call of the TTP identifier, the
\* malware identifier, the timeline builder or analyze_report_data, and no
\* use of what they return, changes the technique map, the malware-name set
\* or the malware-to-techniques map with its descriptor lists.
C10_TaxonomyUnchangedAfterInit ==
    [][pc = "ready" => taxonomy' = taxonomy]_vars

\* extract_malware has handed out a descriptor list of the map and an empty
\* list for a name the map has no entry for, and the map is as parse_mitre
\* built it.
C10_Witness ==
    /\ pc = "ready"
    /\ last.op = "extract_malware"
    /\ \E k \in DOMAIN last.ret : last.ret[k].ttps = <<>>
    /\ \E k \in DOMAIN last.ret :
          /\ last.ret[k].ttps # <<>>
          /\ \E j \in DOMAIN MITRE_MALWARE_MAP :
                MITRE_MALWARE_MAP[j][2] = last.ret[k].ttps
    /\ taxonomy = <<parse_mitre(MITRE_JSON).ttps,
                    parse_mitre(MITRE_JSON).malware_set,
                    parse_mitre(MITRE_JSON).malware_to_ttps>>

-----------------------------------------------------------------------------
\* Properties of the date functions

\* The (date index, sentence index) pairs, 0-based sentence, where the
\* sentence contains the date string.
ContextHits(sents, dates) ==
    {h \in (DOMAIN dates) \X (0..(Len(sents) - 1)) : Contains(sents[h[2] + 1], dates[h[1]])}

\* C8: get_context returns one pair for every date and every sentence that
\* contains it, dates in the order given and sentences in document order,
\* and the context of sentence i is the sentences max(0, i - window) to
\* min(n - 1, i + window) joined by a space; a date in k sentences gives k
\* pairs.
C8_ContextWindowPerOccurrence ==
    last.op = "get_context" =>
      LET sents == sent_tokenize(last.text)
          n == Len(sents)
          w == last.window
          hits == ContextHits(sents, last.dates)
          Rank(h) == 1 + Cardinality({g \in hits : g[1] < h[1]
                                        \/ (g[1] = h[1] /\ g[2] < h[2])})
          lo(i) == IF i - w >= 0 THEN i - w ELSE 0
          hi(i) == IF i + w <= n - 1 THEN i + w ELSE n - 1
      IN /\ Len(last.ret) = Cardinality(hits)
         /\ \A h \in hits :
               last.ret[Rank(h)] =
                  <<last.dates[h[1]],
                    join(<<" ">>, [k \in 1..(hi(h[2]) - lo(h[2]) + 1) |->
                                      sents[lo(h[2]) + k]])>>

\* Five sentences and window 2: a date in the middle sentence and in the
\* last one gives two pairs, the first with all five sentences.
C8_Witness ==
    /\ last.op = "get_context"
    /\ last.window = 2
    /\ Len(sent_tokenize(last.text)) = 5
    /\ \E d \in DOMAIN last.dates :
          /\ Contains(sent_tokenize(last.text)[3], last.dates[d])
          /\ Contains(sent_tokenize(last.text)[5], last.dates[d])
          /\ Cardinality({h \in ContextHits(sent_tokenize(last.text), last.dates) :
                            h[1] = d}) = 2
    /\ \E k \in DOMAIN last.ret :
          /\ last.ret[k][2] = join(<<" ">>, sent_tokenize(last.text))
          /\ k < Len(last.ret)
          /\ last.ret[k + 1][1] = last.ret[k][1]
          /\ last.ret[k + 1][2] # last.ret[k][2]

\* C9: extract_dates returns the strings the four patterns match, each once,
\* in strictly ascending lexicographic order.
C9_DatesDistinctSortedLexicographically ==
    last.op = "extract_dates" =>
      /\ Range(last.ret) = UNION {Range(findall(p, last.text, 1)) : p \in 1..4}
      /\ \A k \in 1..(Len(last.ret) - 1) : StrLess(last.ret[k], last.ret[k + 1])
      /\ \A d \in Range(last.ret) :
            \E p \in 1..4, i \in 1..Len(last.text) :
               /\ OccursAt(last.text, d, i)
               /\ MatchPattern(p, last.text, i) = i + Len(d)

\* The two spellings of one day, the ISO one first in the text, both
\* returned, the slash one first.
C9_Witness ==
    /\ last.op = "extract_dates"
    /\ Len(last.ret) = 2
    /\ safe_parse(last.ret[1]) = safe_parse(last.ret[2])
    /\ safe_parse(last.ret[1]) # NaT
    /\ \E i, j \in 1..Len(last.text) :
          /\ OccursAt(last.text, last.ret[2], i)
          /\ OccursAt(last.text, last.ret[1], j)
          /\ i < j

\* The descriptors of the malware-to-techniques map, all lists together.
RECURSIVE AllDescriptors(_)
AllDescriptors(map) ==
    IF map = <<>> THEN <<>> ELSE Head(map)[2] \o AllDescriptors(Tail(map))

\* The 'uses' relationships of the dataset whose source is a malware object
\* and whose target is a technique object with external references.
UsesOfMalwareAndTechnique(objects) ==
    {k \in DOMAIN objects :
        /\ objects[k].type = "relationship"
        /\ Has(objects[k], "relationship_type")
        /\ objects[k].relationship_type = "uses"
        /\ \E j \in DOMAIN objects :
              objects[j].type = "malware" /\ objects[j].id = objects[k].source_ref
        /\ \E j \in DOMAIN objects :
              /\ objects[j].type = "attack-pattern"
              /\ HasReferences(objects[j])
              /\ objects[j].id = objects[k].target_ref}

\* Every key of the malware-to-techniques map is in the malware-name set,
\* and only 'uses' relationships from a malware object to a technique
\* object add a descriptor, one each.
MapKeysAndRelationships ==
    (pc = "ready" /\ Has(MITRE_JSON, "objects")) =>
       /\ DictKeys(MITRE_MALWARE_MAP) \subseteq MITRE_MALWARE_NAMES
       /\ Len(AllDescriptors(MITRE_MALWARE_MAP))
             = Cardinality(UsesOfMalwareAndTechnique(MITRE_JSON.objects))

\* C12: in what parse_mitre returns, every key of the malware-to-techniques
\* map is in the malware-name set, and every descriptor 'id - name' of its
\* lists names a technique of the technique map: id is a key of it and it
\* gives that name.
C12_DescriptorsReferToKnownTechniques ==
    pc = "ready" =>
       /\ DictKeys(MITRE_MALWARE_MAP) \subseteq MITRE_MALWARE_NAMES
       /\ \A k \in DOMAIN AllDescriptors(MITRE_MALWARE_MAP) :
             \E j \in DOMAIN MITRE_TTPS :
                AllDescriptors(MITRE_MALWARE_MAP)[k]
                   = MITRE_TTPS[j][1] \o <<" ", EnDash, " ">> \o MITRE_TTPS[j][2]
=============================================================================
